---- MODULE Spec2Model ----
(***************************************************************************)
(* School status resolution (event > holiday > weekend > term cascade) and *)
(* the bounded forward scan for the next status change, as implemented by  *)
(* backend/logic.js (SQLite callbacks) and frontend/src/utils/api.js       *)
(* (browser-local functions and the remote wrapper).                       *)
(*                                                                         *)
(* Calendar dates cross every interface as ISO strings YYYY-MM-DD.  They   *)
(* are modelled as triples <<y, m, d>>; the string comparison of the code  *)
(* is the lexicographic comparison of the triples (all fields are          *)
(* fixed-width and zero-padded).  JavaScript Date objects are modelled as  *)
(* an instant counted in hours since 2025-01-01T00:00Z; the host timezone  *)
(* offset tz (hours east of UTC) converts between instants and local       *)
(* calendar fields.                                                        *)
(***************************************************************************)
EXTENDS Integers, Sequences, FiniteSets, TLC

\* ------------------------------------------------------------------------
\* Calendar arithmetic (JavaScript Date, years 2025..2027, none is leap)
\* ------------------------------------------------------------------------
\* days of a non-leap year before each month
DaysBefore == <<0, 31, 59, 90, 120, 151, 181, 212, 243, 273, 304, 334>>

NullDate == <<>>

NullStr == "null"

\* day number of an ISO date (days since 2025-01-01)
DayNum(s) == (s[1] - 2025) * 365 + DaysBefore[s[2]] + (s[3] - 1)

MonthOf(doy) ==
    IF doy < 181
    THEN IF doy < 90
         THEN IF doy < 31 THEN 1 ELSE IF doy < 59 THEN 2 ELSE 3
         ELSE IF doy < 120 THEN 4 ELSE IF doy < 151 THEN 5 ELSE 6
    ELSE IF doy < 273
         THEN IF doy < 212 THEN 7 ELSE IF doy < 243 THEN 8 ELSE 9
         ELSE IF doy < 304 THEN 10 ELSE IF doy < 334 THEN 11 ELSE 12

\* ISO date of a day number: `${year}-${month}-${day}` with padStart
DateOfDay(n) ==
    LET y   == 2025 + (n \div 365)
        doy == n % 365
        m   == MonthOf(doy)
    IN  <<y, m, doy - DaysBefore[m] + 1>>

\* new Date(dateStr + 'T00:00:00'): local midnight, as an instant in hours
ParseLocal(s, tz) == DayNum(s) * 24 - tz

\* local calendar day of an instant (getFullYear/getMonth/getDate)
LocalDay(h, tz) == (h + tz) \div 24

\* UTC calendar day of an instant (what toISOString prints)
UtcDay(h) == h \div 24

\* date.setDate(date.getDate() + days): same local time, days later
SetDatePlus(h, days) == h + 24 * days

\* date.toISOString().split('T')[0]
ToISODate(h) == DateOfDay(UtcDay(h))

\* Date#getDay of the local midnight of an ISO date: 0=Sunday .. 6=Saturday
\* (2025-01-01 is a Wednesday)
GetDay(s, tz) == (LocalDay(ParseLocal(s, tz), tz) + 3) % 7

\* Date#getFullYear of the local midnight of an ISO date
GetFullYear(s, tz) == DateOfDay(LocalDay(ParseLocal(s, tz), tz))[1]

\* JavaScript string comparison a <= b on YYYY-MM-DD strings
StrLeq(a, b) ==
    \/ a[1] < b[1]
    \/ a[1] = b[1] /\ a[2] < b[2]
    \/ a[1] = b[1] /\ a[2] = b[2] /\ a[3] <= b[3]

\* addDays helper of the backend scan
addDays(dateStr, days, tz) ==
    DateOfDay(LocalDay(SetDatePlus(ParseLocal(dateStr, tz), days), tz))

\* ------------------------------------------------------------------------
\* Reference data: schools, school_events, public_holidays, term_rules
\* ------------------------------------------------------------------------
NoRule == "none"

D(y, m, d) == <<y, m, d>>

\* term_rules seed 'QLD State Schools 2026'
SeedTerms ==
    << [term |-> 1, start_date |-> D(2026,1,27),  end_date |-> D(2026,4,2)],
       [term |-> 2, start_date |-> D(2026,4,20),  end_date |-> D(2026,6,26)],
       [term |-> 3, start_date |-> D(2026,7,13),  end_date |-> D(2026,9,18)],
       [term |-> 4, start_date |-> D(2026,10,6),  end_date |-> D(2026,12,11)] >>

\* a rule set whose school year starts with term 2
LateTerms ==
    << [term |-> 2, start_date |-> D(2026,4,20),  end_date |-> D(2026,6,26)] >>

\* the 2026 terms followed by the first term of 2027 (term_dates is free JSON)
FollowingTerms ==
    SeedTerms \o << [term |-> 1, start_date |-> D(2027,1,27), end_date |-> D(2027,4,1)] >>

H(date, name, state) == [holiday_date |-> date, name |-> name, state |-> state]

\* public_holidays seed (QLD 2026)
SeedHolidays ==
    { H(D(2026,1,1), "New Year's Day", "QLD"),
      H(D(2026,1,26), "Australia Day", "QLD"),
      H(D(2026,4,3), "Good Friday", "QLD"),
      H(D(2026,4,4), "The day after Good Friday", "QLD"),
      H(D(2026,4,5), "Easter Sunday", "QLD"),
      H(D(2026,4,6), "Easter Monday", "QLD"),
      H(D(2026,4,25), "ANZAC Day", "QLD"),
      H(D(2026,5,4), "Labour Day", "QLD"),
      H(D(2026,8,12), "Ekka", "QLD"),
      H(D(2026,10,5), "King's Birthday", "QLD"),
      H(D(2026,12,25), "Christmas Day", "QLD"),
      H(D(2026,12,26), "Boxing Day", "QLD"),
      H(D(2026,12,28), "Boxing Day", "QLD") }

E(school, date, name, closure) ==
    [school_id |-> school, event_date |-> date, name |-> name, is_closure |-> closure]

S(id, name, state, rule) ==
    [id |-> id, name |-> name, state |-> state, term_rule_id |-> rule]

GapSchool == S("s1", "The Gap State School", "QLD", "tr1")

\* schools.term_rule_id is nullable (ON DELETE SET NULL)
UnruledSchool == S("s2", "Payne Road State School", "QLD", NoRule)

\* a school whose term_rule_id names no term_rules row
DanglingSchool == S("s3", "Hilder Road State School", "QLD", "tr9")

\* school events of data set 3, closures and informational ones
MixedEvents ==
    { E("s1", D(2026,1,27), "Staff Preparation Day", TRUE),
      E("s1", D(2026,1,26), "Pupil Free Day", TRUE),
      E("s1", D(2026,1,31), "School Fete", TRUE),
      E("s1", D(2027,1,5), "Planning Day", TRUE),
      E("s1", D(2026,2,3), "Swimming Carnival", FALSE),
      E("s1", D(2026,7,1), "Holiday Club", FALSE),
      E("s1", D(2026,2,7), "Working Bee", FALSE),
      E("s9", D(2026,2,5), "Sports Day", TRUE) }

MixedHolidays ==
    SeedHolidays \cup
    { H(D(2026,2,4), "Bank Holiday", "NSW"),
      H(D(2026,9,4), "Show Day", "QLD"),
      H(D(2027,1,1), "New Year's Day", "QLD") }

\* The data sets a deployment can hold.  Each has at most one closure event
\* per (school, date) and one holiday per (state, date).
RuleSets ==
    << \* 1: the seed of the schema script
       [ schools   |-> {GapSchool},
         events    |-> {E("s1", D(2026,9,4), "Staff PD Day", TRUE)},
         holidays  |-> SeedHolidays,
         termRules |-> [r \in {"tr1"} |-> SeedTerms] ],
       \* 2: schools, term dates and holidays only (no school events)
       [ schools   |-> {GapSchool, UnruledSchool},
         events    |-> {},
         holidays  |-> SeedHolidays,
         termRules |-> [r \in {"tr1"} |-> SeedTerms] ],
       \* 3: events on a term day, on a holiday, on a weekend, past 2026,
       \*    an informational event, another school's event, another
       \*    state's holiday, a holiday on 2026-09-04, and a term in 2027
       [ schools   |-> {GapSchool},
         events    |-> MixedEvents,
         holidays  |-> MixedHolidays,
         termRules |-> [r \in {"tr1"} |-> FollowingTerms] ],
       \* 4: a single late term, no events, a school with a dangling rule id
       [ schools   |-> {GapSchool, DanglingSchool},
         events    |-> {},
         holidays  |-> SeedHolidays,
         termRules |-> [r \in {"tr1"} |-> LateTerms] ],
       \* 5: data set 3 without its informational events
       [ schools   |-> {GapSchool},
         events    |-> {e \in MixedEvents : e.is_closure},
         holidays  |-> MixedHolidays,
         termRules |-> [r \in {"tr1"} |-> FollowingTerms] ],
       \* 6: the seed with a term_dates column that holds the JSON value
       \*    null: a reader that guards its parse finds no terms
       [ schools   |-> {GapSchool},
         events    |-> {E("s1", D(2026,9,4), "Staff PD Day", TRUE)},
         holidays  |-> SeedHolidays,
         termRules |-> [r \in {"tr1"} |-> << >>],
         json      |-> "null" ],
       \* 7: the seed with a term_dates column that is not JSON
       [ schools   |-> {GapSchool},
         events    |-> {E("s1", D(2026,9,4), "Staff PD Day", TRUE)},
         holidays  |-> SeedHolidays,
         termRules |-> [r \in {"tr1"} |-> << >>],
         json      |-> "text" ] >>

\* what JSON.parse(termRule.term_dates) gives under the data set: an
\* "object" with its terms, the value "null", or a SyntaxError ("text")
TermDatesJson(c) == IF "json" \in DOMAIN RuleSets[c] THEN RuleSets[c].json ELSE "object"

\* every data set, whatever its term_dates column holds
StoredCfgs == 1..Len(RuleSets)

\* the data sets whose term_dates are JSON objects
Cfgs == {c \in StoredCfgs : TermDatesJson(c) = "object"}

\* a school id that is in no schools table
UnknownSchool == "sX"

\* the schools asked for; the unknown one is asked for under data set 2
QuerySchools(c) ==
    {s.id : s \in RuleSets[c].schools} \cup
    (IF c = 2 THEN {UnknownSchool} ELSE {})

\* browser timezone offsets in hours east of UTC (US Eastern, Brisbane)
TzOffsets == {-5, 10}

\* timezone offset of the host the backend runs on (UTC)
ServerTz == 0

\* ------------------------------------------------------------------------
\* Lookups shared by the implementations
\* ------------------------------------------------------------------------
\* schools.find(s => s.id === id) / SELECT ... FROM schools WHERE id = ?
HasSchool(c, id) == \E s \in RuleSets[c].schools : s.id = id

getSchoolById(c, id) == CHOOSE s \in RuleSets[c].schools : s.id = id

\* the events of the school on the date, closures or not
EventsOn(c, id, dateStr) ==
    { e \in RuleSets[c].events : e.school_id = id /\ e.event_date = dateStr }

\* SELECT ... FROM school_events WHERE school_id = ? AND event_date = ?
\*   AND is_closure = 1 LIMIT 1
ClosureEvents(c, id, dateStr) ==
    { e \in RuleSets[c].events :
        e.school_id = id /\ e.event_date = dateStr /\ e.is_closure }

\* SELECT name FROM public_holidays WHERE holiday_date = ? AND state = ?
HolidaysOn(c, state, dateStr) ==
    { h \in RuleSets[c].holidays : h.holiday_date = dateStr /\ h.state = state }

\* SELECT term_dates FROM term_rules WHERE id = ? / termDates[termRuleId]
HasTermRule(c, ruleId) == ruleId \in DOMAIN RuleSets[c].termRules

TermsOf(c, ruleId) == RuleSets[c].termRules[ruleId]

\* for (const term of terms) if (dateStr >= start && dateStr <= end): the
\* index of the first matching term, 0 when none matches
RECURSIVE FirstTerm(_, _, _)
FirstTerm(terms, dateStr, i) ==
    IF i > Len(terms) THEN 0
    ELSE IF StrLeq(terms[i].start_date, dateStr) /\ StrLeq(dateStr, terms[i].end_date)
         THEN i
         ELSE FirstTerm(terms, dateStr, i + 1)

\* the weekend reason of the database function: one label for both days
DayNameGeneric(dow) == "Weekend"

\* dayOfWeek === 0 ? 'Sunday' : 'Saturday'
DayName(dow) == IF dow = 0 THEN "Sunday" ELSE "Saturday"

IsWeekendDay(dow) == dow = 0 \/ dow = 6

\* `Term ${term.term}`
TermReason(n) == <<"Term 1", "Term 2", "Term 3", "Term 4">>[n]

MaxYear == 2026

\* ------------------------------------------------------------------------
\* Browser-local implementation (frontend/src/utils/api.js)
\* ------------------------------------------------------------------------
\* the student free day hardcoded for all schools
HardcodedFreeDay == D(2026, 9, 4)

Verdict(tt, open, reason, term) ==
    [timeTraveler |-> tt, isOpen |-> open, reason |-> reason, term |-> term]

LocalTermStep(c, ruleId, dateStr) ==
    LET terms == IF HasTermRule(c, ruleId) THEN TermsOf(c, ruleId) ELSE << >>
        i     == FirstTerm(terms, dateStr, 1)
    IN  IF i # 0
        THEN Verdict(FALSE, TRUE, TermReason(terms[i].term), terms[i].term)
        ELSE Verdict(FALSE, FALSE, "School Holidays", 0)

LocalWeekendStep(c, school, dateStr, tz) ==
    LET dayOfWeek == GetDay(dateStr, tz)
    IN  IF IsWeekendDay(dayOfWeek)
        THEN Verdict(FALSE, FALSE, DayName(dayOfWeek), 0)
        ELSE LocalTermStep(c, school.term_rule_id, dateStr)

LocalHolidayStep(c, school, dateStr, tz) ==
    LET hs == HolidaysOn(c, school.state, dateStr)
    IN  IF hs # {}
        THEN Verdict(FALSE, FALSE, (CHOOSE h \in hs : TRUE).name, 0)
        ELSE LocalWeekendStep(c, school, dateStr, tz)

LocalEventStep(c, school, dateStr, tz) ==
    IF dateStr = HardcodedFreeDay
    THEN Verdict(FALSE, FALSE, "Student Free Day - Staff PD Day", 0)
    ELSE LocalHolidayStep(c, school, dateStr, tz)

checkSchoolStatusLocal(c, tz, schoolId, dateStr) ==
    IF ~HasSchool(c, schoolId)
    THEN Verdict(FALSE, FALSE, "School not found", 0)
    ELSE IF GetFullYear(dateStr, tz) > MaxYear
         THEN Verdict(TRUE, FALSE, "Date beyond 2026", 0)
         ELSE LocalEventStep(c, getSchoolById(c, schoolId), dateStr, tz)

maxDays == 60

Projection(date, label, reason) ==
    [date |-> date, label |-> label, reason |-> reason]

EmptyProjection == Projection(NullDate, NullStr, NullStr)

LocalResult(status, next) == [status |-> status, next |-> next]

ChangeLabel(currentOpen) ==
    IF currentOpen THEN "Holidays start in..." ELSE "School starts in..."

\* the for loop of findNextChangeDate: h is the Date object before the
\* setDate of iteration i
RECURSIVE LocalScan(_, _, _, _, _, _)
LocalScan(c, tz, schoolId, h, i, currentOpen) ==
    IF i > maxDays THEN EmptyProjection
    ELSE LET date    == SetDatePlus(h, 1)
             dateStr == ToISODate(date)
             status  == checkSchoolStatusLocal(c, tz, schoolId, dateStr)
         IN  IF status.timeTraveler THEN EmptyProjection
             ELSE IF status.isOpen = ~currentOpen
                  THEN Projection(dateStr, ChangeLabel(currentOpen), status.reason)
                  ELSE LocalScan(c, tz, schoolId, date, i + 1, currentOpen)

findNextChangeDate(c, tz, schoolId, startDate, currentOpen) ==
    LocalScan(c, tz, schoolId, ParseLocal(startDate, tz), 1, currentOpen)

getSchoolStatusForSame(c, tz, schoolId, dateStr) ==
    LET status == checkSchoolStatusLocal(c, tz, schoolId, dateStr)
    IN  LocalResult(status,
                    IF status.timeTraveler THEN EmptyProjection
                    ELSE findNextChangeDate(c, tz, schoolId, dateStr, ~status.isOpen))

\* getSchoolStatus: the verdict and, unless out of range, the projection
getSchoolStatus(c, tz, schoolId, dateStr) ==
    LET status == checkSchoolStatusLocal(c, tz, schoolId, dateStr)
    IN  LocalResult(status,
                    IF status.timeTraveler THEN EmptyProjection
                    ELSE findNextChangeDate(c, tz, schoolId, dateStr, status.isOpen))

\* ------------------------------------------------------------------------
\* Backend implementation (backend/logic.js): pure parts of the callbacks
\* ------------------------------------------------------------------------
\* checkDateStatus when none of its queries fails
checkDateStatus(c, tz, schoolId, schoolState, ruleId, dateStr) ==
    IF IsWeekendDay(GetDay(dateStr, tz)) THEN "Closed"
    ELSE IF ClosureEvents(c, schoolId, dateStr) # {} THEN "Closed"
    ELSE IF HolidaysOn(c, schoolState, dateStr) # {} THEN "Closed"
    ELSE IF ~HasTermRule(c, ruleId) THEN "Closed"
    ELSE IF FirstTerm(TermsOf(c, ruleId), dateStr, 1) # 0 THEN "Open"
    ELSE "Closed"

\* checkDateStatus issues a query only for a weekday
ScanQueriesDb(dateStr, tz) == ~IsWeekendDay(GetDay(dateStr, tz))

\* getReasonForDate; a failed query leaves its row undefined and the
\* function carries on (evFail, holFail, termFail: which queries failed)
getReasonForDate(c, tz, schoolId, schoolState, ruleId, dateStr, status, evFail, holFail, termFail) ==
    IF status = "Closed"
    THEN LET es == IF evFail THEN {} ELSE ClosureEvents(c, schoolId, dateStr)
             hs == IF holFail THEN {} ELSE HolidaysOn(c, schoolState, dateStr)
             dayOfWeek == GetDay(dateStr, tz)
         IN  IF es # {} THEN (CHOOSE e \in es : TRUE).name
             ELSE IF hs # {} THEN (CHOOSE h \in hs : TRUE).name
             ELSE IF IsWeekendDay(dayOfWeek) THEN DayName(dayOfWeek)
             ELSE "School Holidays"
    ELSE LET terms == IF termFail \/ ~HasTermRule(c, ruleId) THEN << >>
                      ELSE TermsOf(c, ruleId)
             i     == FirstTerm(terms, dateStr, 1)
         IN  IF i # 0 THEN TermReason(terms[i].term) ELSE "School Day"

\* a scan that looks for the status it started from
TargetStatusSame(currentStatus) == currentStatus

\* targetStatus of the backend scan
TargetStatus(currentStatus) == IF currentStatus = "Open" THEN "Closed" ELSE "Open"

\* the label chosen by the status looked for instead of the current one
BackendLabelByTarget(currentStatus) ==
    IF currentStatus = "Open" THEN "School starts in..." ELSE "Holidays start in..."

BackendLabel(currentStatus) ==
    IF currentStatus = "Open" THEN "Holidays start in..." ELSE "School starts in..."

Response(status, reason, name, date, next, label, nextReason) ==
    [status |-> status, reason |-> reason, schoolName |-> name, date |-> date,
     nextChangeDate |-> next, countdownLabel |-> label,
     nextChangeReason |-> nextReason]

NoResponse == Response(NullStr, NullStr, NullStr, NullDate, NullDate, NullStr, NullStr)

\* ------------------------------------------------------------------------
\* State
\* ------------------------------------------------------------------------
VARIABLES
    cfg,          \* index of the reference data set in RuleSets
    tz,           \* timezone offset of the caller's host
    mode,         \* the entry point this invocation exercises
    schoolId,     \* input: school identifier
    checkDate,    \* input: ISO date
    curOpen,      \* input of findNextChangeDate: currentOpen
    pc,           \* position of the invocation
    resp,         \* backend: the response object under construction
    settled,      \* backend promise: "pending", "resolved" or "rejected"
    daysChecked,  \* backend scan counter
    local,        \* browser-local result: [status: verdict, next: projection]
    remote,       \* result of the remote wrapper checkSchoolStatus
    reqDate,      \* the date string the backend was called with
    calls,        \* concurrent backend invocations: call id -> its closure
    scanCount,    \* daysChecked of the scans, by the slot that holds it
    result,       \* App state: << >> (null) or <<the displayed result>>
    isLoading,    \* App state
    emergencyClosure,     \* App state: << >> (null) or <<the emergency data>>
    isCheckingEmergency,  \* App state
    showEmergency,        \* SchoolResult state
    crashed,      \* the page: a render has thrown
    localStorage, \* cache key -> << >> or <<[data, timestamp]>>
    requests,     \* the emergency requests in flight, by their cache key
    now,          \* Date.now(), in minutes
    closureFrom,  \* history: the key of the check that set emergencyClosure
    statusOf,     \* getSchoolStatus, tabulated for the selections of the page
    req,          \* server: req.query of GET /api/emergency
    upstream,     \* server: what closures.qld.edu.au answers
    res           \* server: the response sent

vars == <<cfg, tz, mode, schoolId, checkDate, curOpen, pc, resp, settled,
          daysChecked, local, remote, reqDate, calls, scanCount,
          result, isLoading, emergencyClosure, isCheckingEmergency,
          showEmergency, crashed, localStorage, requests, now, closureFrom,
          statusOf, req, upstream, res>>

\* the state of the concurrent invocations
pair == <<calls, scanCount>>

\* the state of the page (App and SchoolResult) and of its emergency checks
page == <<result, isLoading, emergencyClosure, isCheckingEmergency,
          showEmergency, crashed, localStorage, requests, now, closureFrom,
          statusOf>>

\* the state of the emergency route of the server
route == <<req, upstream, res>>

\* the page before its first render
NoPage ==
    /\ result = << >>
    /\ isLoading = FALSE
    /\ emergencyClosure = << >>
    /\ isCheckingEmergency = FALSE
    /\ showEmergency = FALSE
    /\ crashed = FALSE
    /\ localStorage = << >>
    /\ requests = << >>
    /\ now = 0
    /\ closureFrom = << >>
    /\ statusOf = << >>

\* no request to the emergency route
NoRoute ==
    /\ req = << >>
    /\ upstream = << >>
    /\ res = << >>

inputs == <<cfg, tz, mode, schoolId, checkDate, curOpen>>

Modes == {"backend", "remote", "local", "find", "status", "sql"}

\* query dates: 2026-01-01 .. 2027-01-10
FirstQueryDay == 365

LastQueryDay == 739

\* the remote wrapper adds the year test and the response mapping to the
\* backend; it is called for the dates from 2026-12-01 on
FirstRemoteDay == 699

QueryDates(m) ==
    {DateOfDay(n) : n \in (IF m = "remote" THEN FirstRemoteDay ELSE FirstQueryDay)
                          ..LastQueryDay}

NoVerdict == Verdict(FALSE, FALSE, NullStr, 0)

NoLocal == LocalResult(NoVerdict, EmptyProjection)

RemoteResult(tt, open, reason) == [timeTraveler |-> tt, isOpen |-> open, reason |-> reason]

NoRemote == RemoteResult(FALSE, FALSE, NullStr)

Init ==
    /\ cfg \in Cfgs
    /\ mode \in Modes
    /\ tz \in (IF mode \in {"backend", "sql"} THEN {ServerTz} ELSE TzOffsets)
    /\ schoolId \in QuerySchools(cfg)
    /\ checkDate \in QueryDates(mode)
    /\ curOpen \in (IF mode = "find" THEN BOOLEAN ELSE {FALSE})
    /\ pc = IF mode = "backend" THEN "school" ELSE "start"
    /\ resp = NoResponse
    /\ settled = "pending"
    /\ daysChecked = 0
    /\ local = NoLocal
    /\ remote = NoRemote
    /\ reqDate = IF mode = "backend" THEN checkDate ELSE NullDate
    /\ calls = << >>
    /\ scanCount = << >>
    /\ NoPage
    /\ NoRoute

\* ------------------------------------------------------------------------
\* Backend checkSchoolStatus: one action per database callback
\* ------------------------------------------------------------------------
localOut == <<local, remote>>

\* where the backend invocation ends: the wrapper still has to map it
BackendEnd == IF mode = "remote" THEN "response" ELSE "done"

Resolve(r) ==
    /\ resp' = r
    /\ settled' = "resolved"
    /\ pc' = BackendEnd

Reject ==
    /\ settled' = "rejected"
    /\ pc' = BackendEnd
    /\ UNCHANGED <<resp, daysChecked>>

\* termDates.terms with termDates null: the TypeError leaves the callback,
\* nothing settles the promise and no further callback is registered
Throw ==
    /\ pc' = "crashed"
    /\ UNCHANGED <<resp, settled, daysChecked>>

\* the verdict is known: call findNextChangeDate(checkDate, ..., status)
StartScan(status, reason) ==
    /\ resp' = Response(status, reason, getSchoolById(cfg, schoolId).name,
                        reqDate, NullDate, NullStr, NullStr)
    /\ pc' = "scan"
    /\ UNCHANGED <<settled, daysChecked>>

ErrorResponse(reason, name, date) ==
    Response("Error", reason, name, date, NullDate, NullStr, NullStr)

\* callback of SELECT state, term_rule_id, name FROM schools
OnSchool ==
    /\ pc = "school"
    /\ IF ~HasSchool(cfg, schoolId)
       THEN Resolve(ErrorResponse("School not found", NullStr, NullDate))
       ELSE IF getSchoolById(cfg, schoolId).term_rule_id = NoRule
            THEN Resolve(ErrorResponse("No term rules configured for this school",
                                       NullStr, NullDate))
            ELSE pc' = "event" /\ UNCHANGED <<resp, settled>>
    /\ UNCHANGED <<inputs, pair, page, route, daysChecked, localOut, reqDate>>

\* callback of the closure-event query
OnEvent ==
    /\ pc = "event"
    /\ LET es == ClosureEvents(cfg, schoolId, reqDate)
       IN  IF es # {}
           THEN StartScan("Closed", (CHOOSE e \in es : TRUE).name)
           ELSE pc' = "holiday" /\ UNCHANGED <<resp, settled, daysChecked>>
    /\ UNCHANGED <<inputs, pair, page, route, localOut, reqDate>>

\* callback of the public-holiday query, with the weekend test that follows
OnHoliday ==
    /\ pc = "holiday"
    /\ LET hs == HolidaysOn(cfg, getSchoolById(cfg, schoolId).state, reqDate)
           dayOfWeek == GetDay(reqDate, ServerTz)
       IN  IF hs # {}
           THEN StartScan("Closed", (CHOOSE h \in hs : TRUE).name)
           ELSE IF IsWeekendDay(dayOfWeek)
                THEN StartScan("Closed", DayName(dayOfWeek))
                ELSE pc' = "term" /\ UNCHANGED <<resp, settled, daysChecked>>
    /\ UNCHANGED <<inputs, pair, page, route, localOut, reqDate>>

\* callback of the term_rules query
OnTermRule ==
    /\ pc = "term"
    /\ LET school == getSchoolById(cfg, schoolId)
       IN  IF ~HasTermRule(cfg, school.term_rule_id)
           THEN /\ Resolve(ErrorResponse("Term dates not configured",
                                         school.name, reqDate))
                /\ UNCHANGED daysChecked
           ELSE IF TermDatesJson(cfg) = "text"
           THEN Reject
           ELSE IF TermDatesJson(cfg) = "null"
           THEN Throw
           ELSE LET terms == TermsOf(cfg, school.term_rule_id)
                    i     == FirstTerm(terms, reqDate, 1)
                IN  IF i # 0
                    THEN StartScan("Open", TermReason(terms[i].term))
                    ELSE StartScan("Closed", "School Holidays")
    /\ UNCHANGED <<inputs, pair, page, route, localOut, reqDate>>

\* a cascade query calls back with err: reject(new Error(...))
OnQueryError ==
    /\ pc \in {"school", "event", "holiday", "term"}
    /\ Reject
    /\ UNCHANGED <<inputs, pair, page, route, localOut, reqDate>>

\* the date the scan is looking at after n increments of daysChecked
ScanDate(n) == addDays(reqDate, n, ServerTz)

\* the scan goes on after a day that did not match; checkNext resolves the
\* empty projection once daysChecked has reached maxDays
ContinueScan ==
    IF daysChecked' >= maxDays
    THEN Resolve(resp)
    ELSE pc' = "scan" /\ UNCHANGED <<resp, settled>>

\* checkNext, with the .then of checkDateStatus
CheckNext ==
    /\ pc = "scan"
    /\ daysChecked' = daysChecked + 1
    /\ LET school == getSchoolById(cfg, schoolId)
           status == checkDateStatus(cfg, ServerTz, schoolId, school.state,
                                     school.term_rule_id, ScanDate(daysChecked'))
       IN  IF status = TargetStatus(resp.status)
           THEN pc' = "reason" /\ UNCHANGED <<resp, settled>>
           ELSE ContinueScan
    /\ UNCHANGED <<inputs, pair, page, route, localOut, reqDate>>

\* checkNext, with the .catch of checkDateStatus: a query of the day failed
CheckNextError ==
    /\ pc = "scan"
    /\ daysChecked' = daysChecked + 1
    /\ ScanQueriesDb(ScanDate(daysChecked'), ServerTz)
    /\ ContinueScan
    /\ UNCHANGED <<inputs, pair, page, route, localOut, reqDate>>

\* the .then of getReasonForDate: resolve the projection
OnReason ==
    /\ pc = "reason"
    /\ \E evFail, holFail, termFail \in BOOLEAN :
         LET school  == getSchoolById(cfg, schoolId)
             target  == TargetStatus(resp.status)
             date    == ScanDate(daysChecked)
             reason  == getReasonForDate(cfg, ServerTz, schoolId, school.state,
                                         school.term_rule_id, date, target,
                                         evFail, holFail, termFail)
         IN  /\ target = "Closed" => ~termFail
             /\ target = "Open" => ~evFail /\ ~holFail
             /\ holFail => (evFail \/ ClosureEvents(cfg, schoolId, date) = {})
             /\ Resolve([resp EXCEPT !.nextChangeDate = date,
                                     !.countdownLabel = BackendLabel(resp.status),
                                     !.nextChangeReason = reason])
    /\ UNCHANGED <<inputs, pair, page, route, daysChecked, localOut, reqDate>>

\* ------------------------------------------------------------------------
\* Remote wrapper checkSchoolStatus (frontend/src/utils/api.js)
\* ------------------------------------------------------------------------
\* `${yearStr}-${monthStr}-${dayStr}` of the local fields of a Date
FormatLocal(h, zone) == DateOfDay(LocalDay(h, zone))

RemoteCall ==
    /\ mode = "remote" /\ pc = "start"
    /\ LET date == ParseLocal(checkDate, tz)
       IN  IF FormatLocal(date, tz)[1] > MaxYear
           THEN /\ remote' = RemoteResult(TRUE, FALSE, NullStr)
                /\ pc' = "done"
                /\ UNCHANGED reqDate
           ELSE /\ reqDate' = FormatLocal(date, tz)
                /\ pc' = "school"
                /\ UNCHANGED remote
    /\ UNCHANGED <<inputs, pair, page, route, resp, settled, daysChecked, local>>

\* the response of GET /api/check arrives: 500 on a rejected promise
RemoteReceive ==
    /\ mode = "remote" /\ pc = "response"
    /\ IF settled = "rejected"
       THEN pc' = "thrown" /\ UNCHANGED remote
       ELSE /\ remote' = RemoteResult(FALSE, resp.status = "Open", resp.reason)
            /\ pc' = "done"
    /\ UNCHANGED <<inputs, pair, page, route, resp, settled, daysChecked, local, reqDate>>

\* ------------------------------------------------------------------------
\* Browser-local calls
\* ------------------------------------------------------------------------
backendState == <<resp, settled, daysChecked, remote, reqDate>>

LocalCheck ==
    /\ mode = "local" /\ pc = "start"
    /\ local' = LocalResult(checkSchoolStatusLocal(cfg, tz, schoolId, checkDate),
                            EmptyProjection)
    /\ pc' = "done"
    /\ UNCHANGED <<inputs, pair, page, route, backendState>>

LocalFind ==
    /\ mode = "find" /\ pc = "start"
    /\ local' = LocalResult(NoVerdict,
                            findNextChangeDate(cfg, tz, schoolId, checkDate, curOpen))
    /\ pc' = "done"
    /\ UNCHANGED <<inputs, pair, page, route, backendState>>

LocalStatus ==
    /\ mode = "status" /\ pc = "start"
    /\ local' = getSchoolStatus(cfg, tz, schoolId, checkDate)
    /\ pc' = "done"
    /\ UNCHANGED <<inputs, pair, page, route, backendState>>

\* ------------------------------------------------------------------------
\* The database function check_school_status(check_date, target_school_id)
\* ------------------------------------------------------------------------
\* EXTRACT(DOW FROM check_date): 0 = Sunday .. 6 = Saturday
ExtractDow(check_date) == (DayNum(check_date) + 3) % 7

\* check_date >= start_date AND check_date <= end_date on DATE values: the
\* first term of the array that holds the date, 0 when none does
RECURSIVE FirstTermByDate(_, _, _)
FirstTermByDate(terms, check_date, i) ==
    IF i > Len(terms) THEN 0
    ELSE IF /\ DayNum(check_date) >= DayNum(terms[i].start_date)
            /\ DayNum(check_date) <= DayNum(terms[i].end_date)
         THEN i
         ELSE FirstTermByDate(terms, check_date, i + 1)

JsonStatus(status, reason) == [status |-> status, reason |-> reason]

check_school_status(c, check_date, target_school_id) ==
    IF ~HasSchool(c, target_school_id)
    THEN JsonStatus("Error", "School not found")
    ELSE LET school == getSchoolById(c, target_school_id)
             es     == ClosureEvents(c, target_school_id, check_date)
             hs     == HolidaysOn(c, school.state, check_date)
         IN  IF school.term_rule_id = NoRule
             THEN JsonStatus("Error", "No term rules configured for this school")
             ELSE IF es # {}
             THEN JsonStatus("Closed", (CHOOSE e \in es : TRUE).name)
             ELSE IF hs # {}
             THEN JsonStatus("Closed", (CHOOSE h \in hs : TRUE).name)
             ELSE IF ExtractDow(check_date) \in {0, 6}
             THEN JsonStatus("Closed", "Weekend")
             ELSE IF ~HasTermRule(c, school.term_rule_id)
             THEN JsonStatus("Error", "Term dates not configured")
             ELSE LET terms == TermsOf(c, school.term_rule_id)
                      i     == FirstTermByDate(terms, check_date, 1)
                  IN  IF i # 0
                      THEN JsonStatus("Open", TermReason(terms[i].term))
                      ELSE JsonStatus("Closed", "School Holidays")

\* SELECT check_school_status(date, school)
SqlCheck ==
    /\ mode = "sql" /\ pc = "start"
    /\ LET json == check_school_status(cfg, checkDate, schoolId)
       IN  resp' = Response(json.status, json.reason, NullStr, NullDate,
                            NullDate, NullStr, NullStr)
    /\ pc' = "done"
    /\ UNCHANGED <<inputs, pair, page, route, settled, daysChecked, local, remote, reqDate>>

Next ==
    \/ OnSchool
    \/ OnEvent
    \/ OnHoliday
    \/ OnTermRule
    \/ OnQueryError
    \/ CheckNext
    \/ CheckNextError
    \/ OnReason
    \/ RemoteCall
    \/ RemoteReceive
    \/ LocalCheck
    \/ LocalFind
    \/ LocalStatus
    \/ SqlCheck

Spec == Init /\ [][Next]_vars

\* ------------------------------------------------------------------------
\* The backend invocations, direct and through the remote wrapper, over
\* every data set, for the dates from 2026-11-20 on: scans that find a
\* change, scans that run to their limit after the last term, and
\* term_dates columns that do not hold an object.
\* ------------------------------------------------------------------------
FirstStoredDay == 688

InitStored ==
    /\ cfg \in StoredCfgs
    /\ mode \in {"backend", "remote"}
    /\ tz \in (IF mode = "backend" THEN {ServerTz} ELSE TzOffsets)
    /\ schoolId \in QuerySchools(cfg)
    /\ checkDate \in {d \in QueryDates(mode) : DayNum(d) >= FirstStoredDay}
    /\ curOpen = FALSE
    /\ pc = IF mode = "backend" THEN "school" ELSE "start"
    /\ resp = NoResponse
    /\ settled = "pending"
    /\ daysChecked = 0
    /\ local = NoLocal
    /\ remote = NoRemote
    /\ reqDate = IF mode = "backend" THEN checkDate ELSE NullDate
    /\ calls = << >>
    /\ scanCount = << >>
    /\ NoPage
    /\ NoRoute

NextStored ==
    \/ OnSchool
    \/ OnEvent
    \/ OnHoliday
    \/ OnTermRule
    \/ OnQueryError
    \/ CheckNext
    \/ CheckNextError
    \/ OnReason
    \/ RemoteCall
    \/ RemoteReceive

SpecStored == InitStored /\ [][NextStored]_vars

\* sqlite invokes every callback it was given, and the response of a
\* request arrives
SpecLive == InitStored /\ [][NextStored]_vars /\ WF_vars(NextStored)

\* ------------------------------------------------------------------------
\* What the cascade of checkSchoolStatus answers for a date when no query
\* fails (the same steps as OnSchool .. OnTermRule, as one function)
\* ------------------------------------------------------------------------
BackendStatus(c, id, dateStr) ==
    IF ~HasSchool(c, id) THEN [status |-> "Error", reason |-> "School not found"]
    ELSE LET school    == getSchoolById(c, id)
             es        == ClosureEvents(c, id, dateStr)
             hs        == HolidaysOn(c, school.state, dateStr)
             dayOfWeek == GetDay(dateStr, ServerTz)
         IN  IF school.term_rule_id = NoRule
             THEN [status |-> "Error",
                   reason |-> "No term rules configured for this school"]
             ELSE IF es # {}
             THEN [status |-> "Closed", reason |-> (CHOOSE e \in es : TRUE).name]
             ELSE IF hs # {}
             THEN [status |-> "Closed", reason |-> (CHOOSE h \in hs : TRUE).name]
             ELSE IF IsWeekendDay(dayOfWeek)
             THEN [status |-> "Closed", reason |-> DayName(dayOfWeek)]
             ELSE IF ~HasTermRule(c, school.term_rule_id)
             THEN [status |-> "Error", reason |-> "Term dates not configured"]
             ELSE LET terms == TermsOf(c, school.term_rule_id)
                      i     == FirstTerm(terms, dateStr, 1)
                  IN  IF i # 0
                      THEN [status |-> "Open", reason |-> TermReason(terms[i].term)]
                      ELSE [status |-> "Closed", reason |-> "School Holidays"]

\* the response of a resolved backend call carries the cascade's answer
BackendCascadeAgrees ==
    (pc \in {"scan", "reason"} \/ (pc \in {"done", "response"} /\ settled = "resolved"))
      => /\ resp.status = BackendStatus(cfg, schoolId, reqDate).status
         /\ resp.reason = BackendStatus(cfg, schoolId, reqDate).reason

\* ------------------------------------------------------------------------
\* Two backend invocations in flight at once (two requests to /api/check):
\* every database callback of either one is a step, in any interleaving.
\* Each invocation has its own closure (checkDate, schoolId, the response
\* under construction, currentCheckDate); they share the database.
\* ------------------------------------------------------------------------
CallIds == {1, 2}

\* the dates the two requests ask for
CallDates == {D(2026,1,26), D(2026,4,2), D(2026,9,4), D(2026,12,12)}

\* the data sets the two requests run against
CallCfgs == {1, 2, 3}

Call(id, date, at, r, state, cur, failed) ==
    [schoolId |-> id, date |-> date, pc |-> at, resp |-> r, settled |-> state,
     cur |-> cur, failed |-> failed]

\* a counter shared by all scans (declared outside the function)
SharedSlot(i) == 1

\* let daysChecked = 0 inside findNextChangeDate: one counter per call
CounterSlot(i) == i

InitPair ==
    /\ cfg \in CallCfgs
    /\ mode = "pair"
    /\ tz = ServerTz
    /\ schoolId = UnknownSchool
    /\ checkDate = NullDate
    /\ curOpen = FALSE
    /\ pc = "done"
    /\ resp = NoResponse
    /\ settled = "pending"
    /\ daysChecked = 0
    /\ local = NoLocal
    /\ remote = NoRemote
    /\ reqDate = NullDate
    /\ calls \in [CallIds -> {Call(id, date, "school", NoResponse, "pending", NullDate, FALSE) :
                                id \in QuerySchools(cfg), date \in CallDates}]
    /\ scanCount = [i \in CallIds |-> 0]
    /\ NoPage
    /\ NoRoute

single == <<cfg, tz, mode, schoolId, checkDate, curOpen, pc, resp, settled,
            daysChecked, local, remote, reqDate>>

\* call i moves to the record r
CallBecomes(i, r) == calls' = [calls EXCEPT ![i] = r]

CallResolves(i, r) ==
    CallBecomes(i, [calls[i] EXCEPT !.resp = r, !.settled = "resolved", !.pc = "done"])

\* findNextChangeDate is called: its counter starts at 0
CallStartsScan(i, status, reason) ==
    /\ CallBecomes(i, [calls[i] EXCEPT
          !.resp = Response(status, reason, getSchoolById(cfg, calls[i].schoolId).name,
                            calls[i].date, NullDate, NullStr, NullStr),
          !.pc = "scan"])
    /\ scanCount' = [scanCount EXCEPT ![CounterSlot(i)] = 0]

PairOnSchool(i) ==
    /\ calls[i].pc = "school"
    /\ IF ~HasSchool(cfg, calls[i].schoolId)
       THEN CallResolves(i, ErrorResponse("School not found", NullStr, NullDate))
       ELSE IF getSchoolById(cfg, calls[i].schoolId).term_rule_id = NoRule
            THEN CallResolves(i, ErrorResponse("No term rules configured for this school",
                                               NullStr, NullDate))
            ELSE CallBecomes(i, [calls[i] EXCEPT !.pc = "event"])
    /\ UNCHANGED <<single, page, route, scanCount>>

PairOnEvent(i) ==
    /\ calls[i].pc = "event"
    /\ LET es == ClosureEvents(cfg, calls[i].schoolId, calls[i].date)
       IN  IF es # {}
           THEN CallStartsScan(i, "Closed", (CHOOSE e \in es : TRUE).name)
           ELSE CallBecomes(i, [calls[i] EXCEPT !.pc = "holiday"])
                /\ UNCHANGED scanCount
    /\ UNCHANGED <<single, page, route>>

PairOnHoliday(i) ==
    /\ calls[i].pc = "holiday"
    /\ LET hs == HolidaysOn(cfg, getSchoolById(cfg, calls[i].schoolId).state,
                            calls[i].date)
           dayOfWeek == GetDay(calls[i].date, ServerTz)
       IN  IF hs # {}
           THEN CallStartsScan(i, "Closed", (CHOOSE h \in hs : TRUE).name)
           ELSE IF IsWeekendDay(dayOfWeek)
                THEN CallStartsScan(i, "Closed", DayName(dayOfWeek))
                ELSE CallBecomes(i, [calls[i] EXCEPT !.pc = "term"])
                     /\ UNCHANGED scanCount
    /\ UNCHANGED <<single, page, route>>

PairOnTermRule(i) ==
    /\ calls[i].pc = "term"
    /\ LET school == getSchoolById(cfg, calls[i].schoolId)
       IN  IF ~HasTermRule(cfg, school.term_rule_id)
           THEN /\ CallResolves(i, ErrorResponse("Term dates not configured",
                                                 school.name, calls[i].date))
                /\ UNCHANGED scanCount
           ELSE LET terms == TermsOf(cfg, school.term_rule_id)
                    n     == FirstTerm(terms, calls[i].date, 1)
                IN  IF n # 0
                    THEN CallStartsScan(i, "Open", TermReason(terms[n].term))
                    ELSE CallStartsScan(i, "Closed", "School Holidays")
    /\ UNCHANGED <<single, page, route>>

PairOnQueryError(i) ==
    /\ calls[i].pc \in {"school", "event", "holiday", "term"}
    /\ CallBecomes(i, [calls[i] EXCEPT !.settled = "rejected", !.pc = "done",
                                       !.failed = TRUE])
    /\ UNCHANGED <<single, page, route, scanCount>>

\* the scan of call i goes on, or resolves the empty projection at maxDays
CallContinues(i, r) ==
    IF scanCount'[CounterSlot(i)] >= maxDays
    THEN CallBecomes(i, [r EXCEPT !.settled = "resolved", !.pc = "done"])
    ELSE CallBecomes(i, r)

PairCheckNext(i) ==
    /\ calls[i].pc = "scan"
    /\ scanCount' = [scanCount EXCEPT ![CounterSlot(i)] = @ + 1]
    /\ LET school == getSchoolById(cfg, calls[i].schoolId)
           currentCheckDate == addDays(calls[i].date, scanCount'[CounterSlot(i)], ServerTz)
           status == checkDateStatus(cfg, ServerTz, calls[i].schoolId, school.state,
                                     school.term_rule_id, currentCheckDate)
       IN  IF status = TargetStatus(calls[i].resp.status)
           THEN CallBecomes(i, [calls[i] EXCEPT !.pc = "reason", !.cur = currentCheckDate])
           ELSE CallContinues(i, calls[i])
    /\ UNCHANGED <<single, page, route>>

PairCheckNextError(i) ==
    /\ calls[i].pc = "scan"
    /\ scanCount' = [scanCount EXCEPT ![CounterSlot(i)] = @ + 1]
    /\ ScanQueriesDb(addDays(calls[i].date, scanCount'[CounterSlot(i)], ServerTz), ServerTz)
    /\ CallContinues(i, [calls[i] EXCEPT !.failed = TRUE])
    /\ UNCHANGED <<single, page, route>>

PairOnReason(i) ==
    /\ calls[i].pc = "reason"
    /\ \E evFail, holFail, termFail \in BOOLEAN :
         LET school == getSchoolById(cfg, calls[i].schoolId)
             target == TargetStatus(calls[i].resp.status)
             reason == getReasonForDate(cfg, ServerTz, calls[i].schoolId, school.state,
                                        school.term_rule_id, calls[i].cur, target,
                                        evFail, holFail, termFail)
         IN  /\ target = "Closed" => ~termFail
             /\ target = "Open" => ~evFail /\ ~holFail
             /\ holFail => (evFail \/ ClosureEvents(cfg, calls[i].schoolId, calls[i].cur) = {})
             /\ CallBecomes(i, [calls[i] EXCEPT
                   !.resp = [@ EXCEPT !.nextChangeDate = calls[i].cur,
                                      !.countdownLabel = BackendLabel(calls[i].resp.status),
                                      !.nextChangeReason = reason],
                   !.settled = "resolved", !.pc = "done",
                   !.failed = @ \/ evFail \/ holFail \/ termFail])
    /\ UNCHANGED <<single, page, route, scanCount>>

NextPair ==
    \/ \E i \in CallIds : PairOnSchool(i)
    \/ \E i \in CallIds : PairOnEvent(i)
    \/ \E i \in CallIds : PairOnHoliday(i)
    \/ \E i \in CallIds : PairOnTermRule(i)
    \/ \E i \in CallIds : PairOnQueryError(i)
    \/ \E i \in CallIds : PairCheckNext(i)
    \/ \E i \in CallIds : PairCheckNextError(i)
    \/ \E i \in CallIds : PairOnReason(i)

SpecPair == InitPair /\ [][NextPair]_vars

\* ------------------------------------------------------------------------
\* The ways a date text reaches a resolver: GET and POST /api/check of the
\* server, and the typed date field of the page (DateInput, then
\* App.handleCheck).  A date text is the sequence of its dash-separated
\* numbers: <<2026, 2, 31>> is "2026-02-31", <<2026, 2>> is "2026-02".
\* ------------------------------------------------------------------------
EntryModes == {"get", "post", "typed"}

RawYears == {2025, 2026, 2027}

RawMonths == {0, 1, 2, 4, 12, 13, 100}

RawDays == {0, 1, 28, 29, 30, 31, 32}

RawTexts ==
    {<<y, m, d>> : y \in RawYears, m \in RawMonths, d \in RawDays}
    \cup {<<y, m>> : y \in RawYears, m \in RawMonths}
    \cup {<< >>}

\* /^\d{4}-\d{2}-\d{2}$/
MatchesDatePattern(text) ==
    /\ Len(text) = 3
    /\ text[1] \in 0..9999
    /\ text[2] \in 0..99
    /\ text[3] \in 0..99

\* new Date(year, month - 1, day) and its getFullYear/getMonth/getDate
\* for month in 1..12: days past the end of the month roll over
DateFromFields(year, month, day) == DateOfDay(DayNum(<<year, month, 1>>) + day - 1)

\* validateDate of DateInput
validateDate(text) ==
    /\ MatchesDatePattern(text)
    /\ text[1] = 2026
    /\ ~(text[2] < 1 \/ text[2] > 12)
    /\ DateFromFields(text[1], text[2], text[3]) = text
    /\ DayNum(text) >= DayNum(D(2026, 1, 1))
    /\ DayNum(text) <= DayNum(D(2026, 12, 31))

\* !isNaN(new Date(dateStr + 'T00:00:00').getTime()): engines differ on a
\* day of 29..31 that the month does not have (rolled over, or NaN)
ParsesAsDate(text, lenient) ==
    /\ MatchesDatePattern(text)
    /\ text[2] \in 1..12
    /\ IF lenient THEN text[3] \in 1..31
       ELSE text[3] >= 1 /\ DateFromFields(text[1], text[2], text[3]) = text

InitEntry ==
    /\ cfg = 1
    /\ mode \in EntryModes
    /\ tz \in (IF mode = "typed" THEN TzOffsets ELSE {ServerTz})
    /\ schoolId = GapSchool.id
    /\ checkDate \in RawTexts
    /\ curOpen = FALSE
    /\ pc = "input"
    /\ resp = NoResponse
    /\ settled = "pending"
    /\ daysChecked = 0
    /\ local = NoLocal
    /\ remote = NoRemote
    /\ reqDate = NullDate
    /\ calls = << >>
    /\ scanCount = << >>
    /\ NoPage
    /\ NoRoute

\* app.get / app.post '/api/check': 400 unless the date matches the pattern,
\* else checkSchoolStatus(date, schoolId)
HttpCheck ==
    /\ mode \in {"get", "post"} /\ pc = "input"
    /\ IF checkDate = << >> \/ ~MatchesDatePattern(checkDate)
       THEN pc' = "rejected" /\ UNCHANGED reqDate
       ELSE pc' = "resolver" /\ reqDate' = checkDate
    /\ UNCHANGED <<inputs, pair, page, route, resp, settled, daysChecked, local, remote>>

\* handleInputChange / handleBlur of DateInput with a complete text:
\* onChange(validation.date) only when it is valid
TypedDate ==
    /\ mode = "typed" /\ pc = "input"
    /\ IF validateDate(checkDate)
       THEN pc' = "changed" /\ reqDate' = checkDate
       ELSE pc' = "rejected" /\ UNCHANGED reqDate
    /\ UNCHANGED <<inputs, pair, page, route, resp, settled, daysChecked, local, remote>>

\* App.handleCheck with the dateStr that onChange has set
handleCheck ==
    /\ mode = "typed" /\ pc = "changed"
    /\ \E lenient \in BOOLEAN :
          IF ParsesAsDate(reqDate, lenient)
          THEN /\ pc' = "resolver"
               /\ local' = getSchoolStatus(cfg, tz, schoolId, reqDate)
          ELSE pc' = "rejected" /\ UNCHANGED local
    /\ UNCHANGED <<inputs, pair, page, route, resp, settled, daysChecked, remote, reqDate>>

NextEntry ==
    \/ HttpCheck
    \/ TypedDate
    \/ handleCheck

SpecEntry == InitEntry /\ [][NextEntry]_vars

\* ------------------------------------------------------------------------
\* GET /api/emergency of the server (backend/server.js).  A query
\* parameter is the sequence of the values the URL gives it: << >> when it
\* is absent, <<v>> for one value (a string), more for a repeated parameter
\* (an array).  checkedAt of the body is left out.
\* ------------------------------------------------------------------------
Query(schoolName, date) == [schoolName |-> schoolName, date |-> date]

\* what fetch('https://closures.qld.edu.au/') gives: it throws
\* ("unreachable"), answers with a status that is not ok ("status"), or
\* answers a page.  Of the page: listed, its text includes the school name
\* whatever the case; exact, the selector *:contains(schoolName) matches;
\* nearby, the text next to the match is not empty and not the name alone;
\* weather, some element contains flood, cyclone or storm.
Site(fetched, listed, exact, nearby, weather) ==
    [fetch |-> fetched, listed |-> listed, exact |-> exact,
     nearby |-> nearby, weather |-> weather]

Upstreams ==
    {Site(f, FALSE, FALSE, FALSE, FALSE) : f \in {"unreachable", "status"}}
    \cup {s \in {Site("page", l, e, n, w) : l, e, n, w \in BOOLEAN} :
            /\ s.exact => s.listed
            /\ s.nearby => s.exact}

EmergencyBody(isClosed, reason, details, error) ==
    [isClosed |-> isClosed, reason |-> reason, details |-> details, error |-> error]

Answer(status, body) == [status |-> status, body |-> body]

EmergencyUnavailable ==
    Answer(500, EmergencyBody(FALSE, NullStr, NullStr, "Could not check emergency closures"))

\* the catch block: no emergency, with the default status
NoEmergency ==
    Answer(200, EmergencyBody(FALSE, NullStr, NullStr, "Could not check emergency closures"))

MissingParameters ==
    Answer(400, EmergencyBody(FALSE, NullStr, NullStr,
                              "Missing required parameters: schoolName and date (YYYY-MM-DD)"))

\* the try block once the page is loaded
ScrapeClosures(site) ==
    LET isClosed == site.listed
        found    == isClosed /\ site.exact
        reason   == IF found THEN "Emergency Closure" ELSE NullStr
        details  == IF found /\ site.nearby THEN "nearby text" ELSE NullStr
    IN  Answer(200, EmergencyBody(isClosed,
                                  IF site.weather /\ isClosed /\ reason = NullStr
                                  THEN "Weather-related Closure" ELSE reason,
                                  details, NullStr))

\* !schoolName: the parameter is absent or the empty string
NoName(parameter) == parameter = << >> \/ parameter = <<"">>

\* !date: the parameter is absent or the empty text
NoDate(parameter) == parameter = << >> \/ parameter = <<NullDate>>

\* schoolName.toLowerCase() is a TypeError when the parameter is an array
emergencyRoute(query, site) ==
    IF NoName(query.schoolName) \/ NoDate(query.date)
    THEN MissingParameters
    ELSE IF site.fetch # "page" \/ Len(query.schoolName) > 1
         THEN NoEmergency
         ELSE ScrapeClosures(site)

\* one request to the route
RouteNames ==
    {<< >>, <<"">>, <<GapSchool.name>>, <<UnruledSchool.name>>,
     <<GapSchool.name, UnruledSchool.name>>}

RouteDates == {<< >>, <<NullDate>>, <<D(2026, 3, 4)>>, <<D(2026, 3, 7)>>}

InitRoute ==
    /\ cfg = 1
    /\ mode = "emergency"
    /\ tz = ServerTz
    /\ schoolId = UnknownSchool
    /\ checkDate = NullDate
    /\ curOpen = FALSE
    /\ pc = "request"
    /\ resp = NoResponse
    /\ settled = "pending"
    /\ daysChecked = 0
    /\ local = NoLocal
    /\ remote = NoRemote
    /\ reqDate = NullDate
    /\ calls = << >>
    /\ scanCount = << >>
    /\ NoPage
    /\ req \in {Query(n, d) : n \in RouteNames, d \in RouteDates}
    /\ upstream = << >>
    /\ res = << >>

\* app.get('/api/emergency'): the closures site answers while the handler
\* awaits it
EmergencyRoute ==
    /\ mode = "emergency" /\ pc = "request"
    /\ upstream' \in {<<site>> : site \in Upstreams}
    /\ res' = <<emergencyRoute(req, upstream'[1])>>
    /\ pc' = "answered"
    /\ UNCHANGED <<cfg, tz, mode, schoolId, checkDate, curOpen, pair, page,
                   resp, settled, daysChecked, local, remote, reqDate, req>>

NextRoute == EmergencyRoute

SpecRoute == InitRoute /\ [][NextRoute]_vars

\* ------------------------------------------------------------------------
\* The page (frontend/src/App.jsx and components/SchoolResult.jsx): the
\* selection, the local verdict, and the emergency checks in the background.
\* An action is one task of the browser: the handler with the state updates
\* it batches, then the render and the effects of SchoolResult.
\* ------------------------------------------------------------------------
\* the dates the page is asked about: a school day and a Saturday
PageDates == {D(2026, 3, 4), D(2026, 3, 7)}

\* `emergency-${schoolName}-${date}`: the date has a fixed width, so the
\* key names the pair
CacheKey(schoolName, date) == <<schoolName, date>>

\* 10 * 60 * 1000 ms, in minutes
CacheMinutes == 10

\* the clock of the browser stops here
MaxNow == 15

\* emergency requests in flight at a time
MaxRequests == 2

CacheFreshInclusive(age) == age <= CacheMinutes

\* age < 10 * 60 * 1000
CacheFresh(age) == age < CacheMinutes

CacheEntry(data, timestamp) == [data |-> data, timestamp |-> timestamp]

\* localStorage.getItem(cacheKey) of a key that was never set is null
getItem(key) == IF key \in DOMAIN localStorage THEN localStorage[key] ELSE << >>

\* the cached entry that checkEmergencyClosure answers from, or << >>
CachedAnswer(key) ==
    LET cached == getItem(key)
    IN  IF cached # << >> /\ CacheFresh(now - cached[1].timestamp) THEN cached ELSE << >>

\* { ...status, schoolName, date }
PageResult(status, schoolName, date) ==
    [isOpen |-> status.status.isOpen, timeTraveler |-> status.status.timeTraveler,
     reason |-> status.status.reason, nextChangeDate |-> status.next.date,
     schoolName |-> schoolName, date |-> date]

\* getSchoolStatus(selectedSchoolId, dateStr) for the selections of the page
PageStatus(c, t) ==
    [k \in {s.id : s \in RuleSets[c].schools} \X PageDates |->
        getSchoolStatus(c, t, k[1], k[2])]

\* schools.find(s => s.id === selectedSchoolId), then school.name or ''
SchoolNameOf(c, id) == IF HasSchool(c, id) THEN getSchoolById(c, id).name ELSE ""

\* the bodies an ok response of the emergency route carries for the name
EmergencyBodies(schoolName, date) ==
    {emergencyRoute(Query(<<schoolName>>, <<date>>), site).body : site \in Upstreams}

\* App renders SchoolResult (key "result") for these values of its state
Mounted(r, loading) == ~loading /\ r # << >> /\ ~r[1].timeTraveler

\* showEmergency after the commit of the App state <<r, loading, closure>>:
\* a SchoolResult that stays mounted keeps its state, the effect on
\* emergencyClosure sets it and nothing clears it
ShowEmergencyAfter(r, loading, closure) ==
    /\ Mounted(r, loading)
    /\ \/ Mounted(result, isLoading) /\ showEmergency
       \/ closure # << >> /\ closure[1].isClosed

\* emergencyClosure.reason of SchoolResult line 150 with emergencyClosure
\* null: the render throws
RenderThrows(r, loading, closure) ==
    /\ Mounted(r, loading)
    /\ Mounted(result, isLoading) /\ showEmergency
    /\ closure = << >>

\* displayStatus of SchoolResult
displayStatus ==
    IF showEmergency THEN "EMERGENCY CLOSURE"
    ELSE IF result[1].isOpen THEN "YES" ELSE "NO"

\* emergencyClosure.reason || 'Emergency Closure'
EmergencyReason(data) == IF data.reason # NullStr THEN data.reason ELSE "Emergency Closure"

\* displayReason of SchoolResult
displayReason ==
    IF showEmergency THEN EmergencyReason(emergencyClosure[1]) ELSE result[1].reason

\* the commit of the new App state
Render ==
    /\ showEmergency' = ShowEmergencyAfter(result', isLoading', emergencyClosure')
    /\ crashed' = RenderThrows(result', isLoading', emergencyClosure')

InitPage ==
    /\ cfg = 1
    /\ mode = "page"
    /\ tz = 10
    /\ schoolId = GapSchool.id
    /\ checkDate = NullDate
    /\ curOpen = FALSE
    /\ pc = "done"
    /\ resp = NoResponse
    /\ settled = "pending"
    /\ daysChecked = 0
    /\ local = NoLocal
    /\ remote = NoRemote
    /\ reqDate = NullDate
    /\ calls = << >>
    /\ scanCount = << >>
    /\ result = << >>
    /\ isLoading = FALSE
    /\ emergencyClosure = << >>
    /\ isCheckingEmergency = FALSE
    /\ showEmergency = FALSE
    /\ crashed = FALSE
    /\ localStorage = << >>
    /\ requests = << >>
    /\ now = 0
    /\ closureFrom = << >>
    /\ statusOf = PageStatus(cfg, tz)
    /\ NoRoute

backend == <<cfg, tz, mode, curOpen, pc, resp, settled, daysChecked, local,
             remote, reqDate, pair, route, statusOf>>

\* the part of checkEmergencyClosure(schoolName, date) that runs before its
\* fetch, called by handleCheck after setEmergencyClosure(null)
StartEmergencyCheck(schoolName, date) ==
    LET key    == CacheKey(schoolName, date)
        cached == CachedAnswer(key)
    IN  IF schoolName = ""
        THEN /\ emergencyClosure' = << >>
             /\ closureFrom' = << >>
             /\ UNCHANGED <<isCheckingEmergency, requests>>
        ELSE IF cached # << >>
             THEN /\ emergencyClosure' =
                        IF cached[1].data.isClosed THEN <<cached[1].data>> ELSE << >>
                  /\ closureFrom' = IF cached[1].data.isClosed THEN <<key>> ELSE << >>
                  /\ isCheckingEmergency' = FALSE
                  /\ UNCHANGED requests
             ELSE /\ emergencyClosure' = << >>
                  /\ closureFrom' = << >>
                  /\ isCheckingEmergency' = TRUE
                  /\ requests' = Append(requests, key)

\* the school or the date is changed, and the effect on
\* [selectedSchoolId, dateStr, handleCheck] runs handleCheck
AutoCheck ==
    /\ mode = "page" /\ ~crashed
    /\ Len(requests) < MaxRequests
    /\ \E id \in {s.id : s \in RuleSets[cfg].schools}, date \in PageDates \cup {NullDate} :
          /\ <<id, date>> # <<schoolId, checkDate>>
          /\ schoolId' = id
          /\ checkDate' = date
          /\ isLoading' = FALSE
          /\ IF date = NullDate
             THEN /\ result' = << >>
                  /\ emergencyClosure' = << >>
                  /\ closureFrom' = << >>
                  /\ UNCHANGED <<isCheckingEmergency, requests>>
             ELSE /\ result' = <<PageResult(statusOf[<<id, date>>],
                                            SchoolNameOf(cfg, id), date)>>
                  /\ StartEmergencyCheck(SchoolNameOf(cfg, id), date)
    /\ Render
    /\ UNCHANGED <<backend, localStorage, now>>

\* requests without the i-th
Without(i) == SubSeq(requests, 1, i - 1) \o SubSeq(requests, i + 1, Len(requests))

EmergencyCheckClearsResult(i) ==
    /\ requests' = Without(i)
    /\ isCheckingEmergency' = FALSE
    /\ result' = << >>
    /\ UNCHANGED <<backend, schoolId, checkDate, isLoading, now>>

\* finally { setIsCheckingEmergency(false) }
EmergencyCheckEnds(i) ==
    /\ requests' = Without(i)
    /\ isCheckingEmergency' = FALSE
    /\ UNCHANGED <<backend, schoolId, checkDate, result, isLoading, now>>

\* the fetch of request i is answered with response.ok
EmergencyAnswered ==
    /\ mode = "page" /\ ~crashed
    /\ \E i \in 1..Len(requests) :
         \E data \in EmergencyBodies(requests[i][1], requests[i][2]) :
            /\ localStorage' =
                  [key \in DOMAIN localStorage \cup {requests[i]} |->
                      IF key = requests[i] THEN <<CacheEntry(data, now)>>
                      ELSE localStorage[key]]
            /\ emergencyClosure' = IF data.isClosed THEN <<data>> ELSE << >>
            /\ closureFrom' = IF data.isClosed THEN <<requests[i]>> ELSE << >>
            /\ EmergencyCheckEnds(i)
    /\ Render

\* the fetch of request i is answered with a status that is not ok
EmergencyRefused ==
    /\ mode = "page" /\ ~crashed
    /\ \E i \in 1..Len(requests) : EmergencyCheckEnds(i)
    /\ UNCHANGED <<localStorage, emergencyClosure, closureFrom>>
    /\ Render

\* the fetch of request i throws: the catch block
EmergencyFailed ==
    /\ mode = "page" /\ ~crashed
    /\ \E i \in 1..Len(requests) : EmergencyCheckEnds(i)
    /\ UNCHANGED <<localStorage, emergencyClosure, closureFrom>>
    /\ Render

\* time passes
Tick ==
    /\ mode = "page" /\ ~crashed
    /\ now < MaxNow
    /\ now' = now + 5
    /\ UNCHANGED <<backend, schoolId, checkDate, result, isLoading,
                   emergencyClosure, isCheckingEmergency, showEmergency,
                   crashed, localStorage, requests, closureFrom>>

NextPage ==
    \/ AutoCheck
    \/ EmergencyAnswered
    \/ EmergencyRefused
    \/ EmergencyFailed
    \/ Tick

SpecPage == InitPage /\ [][NextPage]_vars

\* ------------------------------------------------------------------------
\* The reference data as the specification reads it
\* ------------------------------------------------------------------------
Known == \E s \in RuleSets[cfg].schools : s.id = schoolId

TheSchool == CHOOSE s \in RuleSets[cfg].schools : s.id = schoolId

\* the school exists and has a term rule assigned
Configured == Known /\ TheSchool.term_rule_id # NoRule

\* the rule assigned to the school exists
HasTerms == Configured /\ TheSchool.term_rule_id \in DOMAIN RuleSets[cfg].termRules

TheTerms == RuleSets[cfg].termRules[TheSchool.term_rule_id]

InRange(d) == d[1] <= MaxYear

ClosureOn(d) ==
    \E e \in RuleSets[cfg].events :
        e.school_id = schoolId /\ e.event_date = d /\ e.is_closure

HolidayOn(d) ==
    \E h \in RuleSets[cfg].holidays :
        h.holiday_date = d /\ h.state = TheSchool.state

\* day of week by the calendar: 0 = Sunday .. 6 = Saturday
Weekday(d) == (DayNum(d) + 3) % 7

WeekendOn(d) == Weekday(d) \in {0, 6}

\* calendar membership of a date in a term
InTerm(t, d) == DayNum(t.start_date) <= DayNum(d) /\ DayNum(d) <= DayNum(t.end_date)

\* a verdict has been returned
BackendDone == mode = "backend" /\ pc = "done" /\ settled = "resolved"

RemoteDone == mode = "remote" /\ pc = "done"

LocalDone == mode \in {"local", "status"} /\ pc = "done"

\* ------------------------------------------------------------------------
\* C1: on a date with a closure event of the school, every resolver
\* answers closed with the event's name as the reason.
\* ------------------------------------------------------------------------
C1_ClosureEventWins ==
    \A e \in RuleSets[cfg].events :
        (e.school_id = schoolId /\ e.event_date = checkDate /\ e.is_closure
         /\ InRange(checkDate) /\ Configured)
        => /\ BackendDone => (resp.status = "Closed" /\ resp.reason = e.name)
           /\ RemoteDone => (~remote.isOpen /\ remote.reason = e.name)
           /\ LocalDone => (~local.status.isOpen /\ local.status.reason = e.name)

\* ------------------------------------------------------------------------
\* C2: on a date with a public holiday of the school's state and no
\* closure event, every resolver answers closed with the holiday's name,
\* also on a weekend and inside a term.
\* ------------------------------------------------------------------------
C2_HolidayWins ==
    \A h \in RuleSets[cfg].holidays :
        (Configured /\ InRange(checkDate) /\ ~ClosureOn(checkDate)
         /\ h.holiday_date = checkDate /\ h.state = TheSchool.state)
        => /\ BackendDone => (resp.status = "Closed" /\ resp.reason = h.name)
           /\ RemoteDone => (~remote.isOpen /\ remote.reason = h.name)
           /\ LocalDone => (~local.status.isOpen /\ local.status.reason = h.name)

\* ------------------------------------------------------------------------
\* C3: on a Saturday or Sunday with no closure event and no public
\* holiday, every resolver answers closed with the reason "Saturday" on a
\* Saturday and "Sunday" on a Sunday, also inside a term.
\* ------------------------------------------------------------------------
WeekendName(d) == IF Weekday(d) = 6 THEN "Saturday" ELSE "Sunday"

C3_WeekendNamed ==
    (Known /\ InRange(checkDate) /\ WeekendOn(checkDate)
     /\ ~ClosureOn(checkDate) /\ ~HolidayOn(checkDate))
    => /\ (BackendDone /\ Configured)
            => (resp.status = "Closed" /\ resp.reason = WeekendName(checkDate))
       /\ (RemoteDone /\ Configured)
            => (~remote.isOpen /\ remote.reason = WeekendName(checkDate))
       /\ LocalDone
            => (~local.status.isOpen /\ ~local.status.timeTraveler
                /\ local.status.reason = WeekendName(checkDate))

\* a Saturday inside a term answered by the backend, a Sunday answered
\* locally
C3_Witness ==
    \/ /\ BackendDone /\ HasTerms /\ Weekday(checkDate) = 6
       /\ \E i \in DOMAIN TheTerms : InTerm(TheTerms[i], checkDate)
       /\ ~ClosureOn(checkDate) /\ ~HolidayOn(checkDate)
       /\ resp.reason = "Saturday"
    \/ /\ LocalDone /\ Known /\ Weekday(checkDate) = 0
       /\ ~ClosureOn(checkDate) /\ ~HolidayOn(checkDate)
       /\ local.status.reason = "Sunday"

\* ------------------------------------------------------------------------
\* C4: on a weekday with no closure event and no public holiday that lies
\* in a term (first and last day included), every resolver answers open
\* with the reason "Term n" and the number n of that term.
\* ------------------------------------------------------------------------
C4_TermDayOpen ==
    (HasTerms /\ InRange(checkDate) /\ ~WeekendOn(checkDate)
     /\ ~ClosureOn(checkDate) /\ ~HolidayOn(checkDate))
    => \A i \in DOMAIN TheTerms :
          InTerm(TheTerms[i], checkDate)
          => /\ BackendDone => (resp.status = "Open"
                                /\ resp.reason = TermReason(TheTerms[i].term))
             /\ RemoteDone => (remote.isOpen
                               /\ remote.reason = TermReason(TheTerms[i].term))
             /\ LocalDone => (local.status.isOpen
                              /\ local.status.reason = TermReason(TheTerms[i].term)
                              /\ local.status.term = TheTerms[i].term)

\* ------------------------------------------------------------------------
\* C5: on a weekday outside every term with no closure event and no public
\* holiday, every resolver answers closed with the reason "School
\* Holidays"; a resolver answers open only for a date inside a term on
\* which no event, holiday or weekend rule matched.
\* ------------------------------------------------------------------------
OutsideTerms(d) == \A i \in DOMAIN TheTerms : ~InTerm(TheTerms[i], d)

OpenAllowed(d) ==
    /\ HasTerms /\ ~OutsideTerms(d)
    /\ ~ClosureOn(d) /\ ~HolidayOn(d) /\ ~WeekendOn(d)

C5_HolidayFallback ==
    /\ (HasTerms /\ InRange(checkDate) /\ ~WeekendOn(checkDate)
        /\ ~ClosureOn(checkDate) /\ ~HolidayOn(checkDate)
        /\ OutsideTerms(checkDate))
       => /\ BackendDone => (resp.status = "Closed" /\ resp.reason = "School Holidays")
          /\ RemoteDone => (~remote.isOpen /\ remote.reason = "School Holidays")
          /\ LocalDone => (~local.status.isOpen
                           /\ local.status.reason = "School Holidays")
    /\ (BackendDone /\ resp.status = "Open") => OpenAllowed(checkDate)
    /\ (RemoteDone /\ remote.isOpen) => OpenAllowed(checkDate)
    /\ (LocalDone /\ local.status.isOpen) => OpenAllowed(checkDate)

\* ------------------------------------------------------------------------
\* C6: for a date whose year is past the maximum supported year, every
\* entry point returns the out-of-range signal and no Open/Closed verdict.
\* ------------------------------------------------------------------------
C6_OutOfRangeRejected ==
    (Known /\ checkDate[1] > MaxYear)
    => /\ BackendDone => resp.status \notin {"Open", "Closed"}
       /\ RemoteDone => remote.timeTraveler
       /\ LocalDone => local.status.timeTraveler

\* ------------------------------------------------------------------------
\* The forward scan: what its callers passed and what it returned
\* ------------------------------------------------------------------------
\* a local scan has returned
ScanDone == mode \in {"find", "status"} /\ pc = "done"

\* the scan of getSchoolStatus runs only for a verdict in range
ScanRan == ScanDone /\ (mode = "status" => ~local.status.timeTraveler)

\* currentOpen of the local scan
LocalCurrent == IF mode = "find" THEN curOpen ELSE local.status.isOpen

\* the date k days after a date, by the calendar
DaysAfter(d, k) == DateOfDay(DayNum(d) + k)

\* the local resolver answers the opposite of currentOpen on the date
LocalFlipOn(d) ==
    checkSchoolStatusLocal(cfg, tz, schoolId, d).isOpen # LocalCurrent

\* the backend resolver answers the opposite verdict on the date
BackendFlipOn(d) ==
    LET st == BackendStatus(cfg, schoolId, d).status
    IN  st \in {"Open", "Closed"} /\ st # resp.status

\* the least k in from..maxDays with a flip k days after the start date,
\* 0 when there is none
RECURSIVE LocalFirstFlip(_)
LocalFirstFlip(from) ==
    IF from > maxDays THEN 0
    ELSE IF LocalFlipOn(DaysAfter(checkDate, from)) THEN from
    ELSE LocalFirstFlip(from + 1)

RECURSIVE BackendFirstFlip(_)
BackendFirstFlip(from) ==
    IF from > maxDays THEN 0
    ELSE IF BackendFlipOn(DaysAfter(reqDate, from)) THEN from
    ELSE BackendFirstFlip(from + 1)

\* ------------------------------------------------------------------------
\* C7: when the scan returns a date, the resolver's verdict for that date
\* is the opposite of the current verdict the scan was given.
\* ------------------------------------------------------------------------
C7_ProjectedDateFlips ==
    /\ (ScanDone /\ local.next.date # NullDate) => LocalFlipOn(local.next.date)
    /\ (BackendDone /\ resp.nextChangeDate # NullDate)
          => BackendFlipOn(resp.nextChangeDate)

\* both directions, backend and local
C7_Witness ==
    \/ /\ BackendDone /\ resp.status = "Open"
       /\ resp.nextChangeDate # NullDate
       /\ BackendStatus(cfg, schoolId, resp.nextChangeDate).status = "Closed"
    \/ /\ ScanDone /\ ~LocalCurrent /\ local.next.date # NullDate
       /\ checkSchoolStatusLocal(cfg, tz, schoolId, local.next.date).isOpen

\* ------------------------------------------------------------------------
\* C8: the date a scan returns is the earliest date after the start date
\* on which the verdict differs from the current one, in every execution
\* of the backend scan, also when a query of a scanned day fails.
\* ------------------------------------------------------------------------
C8_ProjectionEarliest ==
    (BackendDone /\ resp.nextChangeDate # NullDate)
    => /\ DayNum(resp.nextChangeDate) > DayNum(reqDate)
       /\ \A n \in (DayNum(reqDate) + 1)..(DayNum(resp.nextChangeDate) - 1) :
             ~BackendFlipOn(DateOfDay(n))

\* ------------------------------------------------------------------------
\* C9: the scan looks at the 60 dates after the start date, never at the
\* start date; when the first flip is k days after the start, 1 <= k <= 60,
\* and no scanned date is out of range, the scan returns that date.
\* ------------------------------------------------------------------------
C9_ScanCoversSixtyDays ==
    ScanRan =>
       LET k == LocalFirstFlip(1)
       IN  /\ (k # 0 /\ InRange(DaysAfter(checkDate, k)))
                => local.next.date = DaysAfter(checkDate, k)
           /\ local.next.date # checkDate

\* ------------------------------------------------------------------------
\* C10: when none of the 60 dates after the start date flips, the scan
\* returns the empty projection; the date is null exactly when the label
\* is null.
\* ------------------------------------------------------------------------
C10_EmptyWhenStable ==
    /\ (ScanRan /\ LocalFirstFlip(1) = 0) => local.next = EmptyProjection
    /\ ScanDone => (local.next.date = NullDate <=> local.next.label = NullStr)
    /\ (BackendDone /\ resp.status \in {"Open", "Closed"} /\ BackendFirstFlip(1) = 0)
          => /\ resp.nextChangeDate = NullDate
             /\ resp.countdownLabel = NullStr
             /\ resp.nextChangeReason = NullStr
    /\ BackendDone => (resp.nextChangeDate = NullDate <=> resp.countdownLabel = NullStr)

\* ------------------------------------------------------------------------
\* C11: a scan never returns a date past the maximum supported year; it
\* stops at the first scanned date that is out of range and returns the
\* empty projection (schools of the school list).
\* ------------------------------------------------------------------------
C11_ScanStopsAtRange ==
    Known =>
      /\ (ScanDone /\ local.next.date # NullDate) => InRange(local.next.date)
      /\ (BackendDone /\ resp.nextChangeDate # NullDate)
            => InRange(resp.nextChangeDate)

\* ------------------------------------------------------------------------
\* C12: for a school of the list with no term rule set assigned, every
\* resolver fails with a configuration error on every date in range and
\* never answers with an open or closed verdict.
\* ------------------------------------------------------------------------
ConfigurationErrors ==
    {"No term rules configured for this school", "Term dates not configured"}

C12_UnruledSchoolIsError ==
    (Known /\ ~Configured /\ InRange(checkDate))
    => /\ BackendDone => (resp.status = "Error" /\ resp.reason \in ConfigurationErrors)
       /\ LocalDone => local.status.reason \in ConfigurationErrors

\* ------------------------------------------------------------------------
\* C13: for a school identifier that is not in the school list every
\* resolver answers not found, and no scan returns a change date.
\* ------------------------------------------------------------------------
C13_UnknownSchoolNotFound ==
    ~Known
    => /\ BackendDone => /\ resp.status = "Error"
                         /\ resp.reason = "School not found"
                         /\ resp.nextChangeDate = NullDate
       /\ (RemoteDone /\ ~remote.timeTraveler) => remote.reason = "School not found"
       /\ LocalDone => local.status.reason = "School not found"
       /\ ScanDone => local.next.date = NullDate

\* ------------------------------------------------------------------------
\* C14: a projection with a date is labelled "Holidays start in..." exactly
\* when the current verdict is open and "School starts in..." exactly when
\* it is closed.
\* ------------------------------------------------------------------------
DirectionLabel(open) ==
    IF open THEN "Holidays start in..." ELSE "School starts in..."

C14_LabelMatchesDirection ==
    /\ (ScanDone /\ local.next.date # NullDate)
          => local.next.label = DirectionLabel(LocalCurrent)
    /\ (BackendDone /\ resp.nextChangeDate # NullDate)
          => resp.countdownLabel = DirectionLabel(resp.status = "Open")

\* a closed day of the backend whose scan found the next open day
C14_Witness ==
    /\ BackendDone /\ resp.status = "Closed"
    /\ resp.nextChangeDate # NullDate
    /\ resp.countdownLabel = "School starts in..."

\* ------------------------------------------------------------------------
\* C15: the reason of a projection with a date is the reason the resolver
\* gives for that date; in the backend, checkDateStatus and
\* getReasonForDate give, for every school of the list with a rule
\* assigned and every date, the status and reason of checkSchoolStatus.
\* ------------------------------------------------------------------------
C15_ScanAgreesWithResolver ==
    /\ (ScanDone /\ local.next.date # NullDate)
          => local.next.reason =
                checkSchoolStatusLocal(cfg, tz, schoolId, local.next.date).reason
    /\ (BackendDone /\ resp.nextChangeDate # NullDate)
          => resp.nextChangeReason =
                BackendStatus(cfg, schoolId, resp.nextChangeDate).reason
    /\ (mode = "backend" /\ Configured)
          => LET st == BackendStatus(cfg, schoolId, checkDate)
                 ds == checkDateStatus(cfg, ServerTz, schoolId, TheSchool.state,
                                       TheSchool.term_rule_id, checkDate)
             IN  /\ ds = st.status
                 /\ getReasonForDate(cfg, ServerTz, schoolId, TheSchool.state,
                                     TheSchool.term_rule_id, checkDate, ds,
                                     FALSE, FALSE, FALSE) = st.reason

\* ------------------------------------------------------------------------
\* C16: the scan depends on the start date, the current verdict and the
\* reference data alone: on a host with any other timezone offset the same
\* call looks at the same dates and returns the same projection.
\* ------------------------------------------------------------------------
C16_ScanIgnoresTimezone ==
    /\ ScanRan
          => \A zone \in TzOffsets :
                findNextChangeDate(cfg, zone, schoolId, checkDate, LocalCurrent)
                   = local.next
    /\ (mode = "backend" /\ pc = "scan")
          => \A zone \in TzOffsets :
                addDays(reqDate, daysChecked + 1, zone) = ScanDate(daysChecked + 1)

\* ------------------------------------------------------------------------
\* C17: a backend call that runs interleaved with another one, and none of
\* whose queries fails, resolves the response it resolves when run alone:
\* the cascade's verdict for its date and the projection of a scan of its
\* own; two calls with the same inputs resolve the same response.
\* ------------------------------------------------------------------------
\* the scan of a call that runs alone: the first n in from..maxDays whose
\* date has the target status, 0 when there is none
RECURSIVE AloneScan(_, _, _, _, _)
AloneScan(c, id, date, target, from) ==
    IF from > maxDays THEN 0
    ELSE LET school == getSchoolById(c, id)
         IN  IF checkDateStatus(c, ServerTz, id, school.state, school.term_rule_id,
                                addDays(date, from, ServerTz)) = target
             THEN from
             ELSE AloneScan(c, id, date, target, from + 1)

AloneResponse(c, id, date) ==
    LET st == BackendStatus(c, id, date)
    IN  IF st.status = "Error"
        THEN ErrorResponse(st.reason,
                           IF st.reason = "Term dates not configured"
                           THEN getSchoolById(c, id).name ELSE NullStr,
                           IF st.reason = "Term dates not configured"
                           THEN date ELSE NullDate)
        ELSE LET school == getSchoolById(c, id)
                 target == IF st.status = "Open" THEN "Closed" ELSE "Open"
                 n      == AloneScan(c, id, date, target, 1)
                 next   == addDays(date, n, ServerTz)
             IN  IF n = 0
                 THEN Response(st.status, st.reason, school.name, date,
                               NullDate, NullStr, NullStr)
                 ELSE Response(st.status, st.reason, school.name, date, next,
                               DirectionLabel(st.status = "Open"),
                               BackendStatus(c, id, next).reason)

C17_CallsDoNotInterfere ==
    mode = "pair" =>
      /\ \A i \in CallIds :
            (calls[i].pc = "done" /\ ~calls[i].failed)
            => /\ calls[i].settled = "resolved"
               /\ calls[i].resp = AloneResponse(cfg, calls[i].schoolId, calls[i].date)
      /\ \A i, j \in CallIds :
            (/\ calls[i].pc = "done" /\ ~calls[i].failed
             /\ calls[j].pc = "done" /\ ~calls[j].failed
             /\ calls[i].schoolId = calls[j].schoolId
             /\ calls[i].date = calls[j].date)
            => calls[i].resp = calls[j].resp

\* one call has resolved a projection while the scan of the other, started
\* before, is still under way
C17_Witness ==
    /\ mode = "pair"
    /\ calls[1].pc = "done" /\ ~calls[1].failed
    /\ calls[1].resp.nextChangeDate # NullDate
    /\ calls[2].pc = "scan" /\ scanCount[2] > 0

\* ------------------------------------------------------------------------
\* C18: on every entry path a resolver is invoked only with a date text
\* of the form YYYY-MM-DD that names a real calendar date.
\* ------------------------------------------------------------------------
DaysInMonth(m) == IF m = 2 THEN 28 ELSE IF m \in {4, 6, 9, 11} THEN 30 ELSE 31

\* a date of the calendar (none of the years in RawYears is a leap year)
RealDate(text) ==
    /\ Len(text) = 3
    /\ text[2] \in 1..12
    /\ text[3] \in 1..DaysInMonth(text[2])

C18_ResolverGetsRealDates ==
    (mode \in EntryModes /\ pc = "resolver") => RealDate(reqDate)

\* ------------------------------------------------------------------------
\* C19: informational school events (is_closure false) never affect the
\* verdict: every resolver answers with the status and reason it answers
\* on the data that differ only by having no informational events.
\* ------------------------------------------------------------------------
\* data set c2 is data set c with its informational events left out
SameButInformational(c, c2) ==
    /\ RuleSets[c2].schools = RuleSets[c].schools
    /\ RuleSets[c2].holidays = RuleSets[c].holidays
    /\ RuleSets[c2].termRules = RuleSets[c].termRules
    /\ RuleSets[c2].events = {e \in RuleSets[c].events : e.is_closure}

InformationalOn(d) ==
    \E e \in RuleSets[cfg].events :
        e.school_id = schoolId /\ e.event_date = d /\ ~e.is_closure

C19_InformationalIgnored ==
    \A c2 \in Cfgs :
       SameButInformational(cfg, c2)
       => /\ BackendDone
             => /\ resp.status = BackendStatus(c2, schoolId, reqDate).status
                /\ resp.reason = BackendStatus(c2, schoolId, reqDate).reason
          /\ (RemoteDone /\ ~remote.timeTraveler)
             => /\ remote.isOpen = (BackendStatus(c2, schoolId, reqDate).status = "Open")
                /\ remote.reason = BackendStatus(c2, schoolId, reqDate).reason
          /\ LocalDone
             => LET v == checkSchoolStatusLocal(c2, tz, schoolId, checkDate)
                IN  /\ local.status.isOpen = v.isOpen
                    /\ local.status.reason = v.reason

\* a term day with an informational event has been answered open
C19_Witness ==
    /\ BackendDone
    /\ InformationalOn(reqDate)
    /\ \E c2 \in Cfgs : c2 # cfg /\ SameButInformational(cfg, c2)
    /\ resp.status = "Open"

\* ------------------------------------------------------------------------
\* C20: for the same data, school and date of a year in range, the
\* database function, the backend cascade and the local resolver answer
\* with the same status and the same reason.
\* ------------------------------------------------------------------------
C20_ImplementationsAgree ==
    (mode = "sql" /\ pc = "done" /\ InRange(checkDate))
    => LET b == BackendStatus(cfg, schoolId, checkDate)
       IN  /\ resp.status = b.status
           /\ resp.reason = b.reason
           /\ \A zone \in TzOffsets :
                 LET v == checkSchoolStatusLocal(cfg, zone, schoolId, checkDate)
                 IN  /\ v.isOpen = (resp.status = "Open")
                     /\ v.reason = resp.reason

\* ------------------------------------------------------------------------
\* The page as the specification reads it
\* ------------------------------------------------------------------------
\* the pair (schoolName, date) of the selection
SelectedKey == CacheKey(SchoolNameOf(cfg, schoolId), checkDate)

\* this step changes the selection to a school and a date, so handleCheck
\* calls checkEmergencyClosure for the new pair
CheckCalled == <<schoolId', checkDate'>> # <<schoolId, checkDate>> /\ checkDate' # NullDate

\* the minutes since the response for the key was cached
CachedAge(key) == now - localStorage[key][1].timestamp

\* ------------------------------------------------------------------------
\* C21: emergency results are cached for 10 minutes per (schoolName, date):
\* a call of checkEmergencyClosure for a pair whose response was cached less
\* than 10 minutes before issues no request, and a call 10 minutes or more
\* after the response was cached issues a new request.
\* ------------------------------------------------------------------------
C21_CachedForTenMinutes ==
    [][CheckCalled =>
          LET key == CacheKey(SchoolNameOf(cfg, schoolId'), checkDate')
          IN  key \in DOMAIN localStorage =>
                 IF CachedAge(key) < 10
                 THEN requests' = requests
                 ELSE requests' = Append(requests, key)]_vars

\* the selection was answered from the cache: its response was cached
\* before the response of the other pair, and nothing is in flight
C21_Witness ==
    /\ mode = "page" /\ ~crashed /\ checkDate # NullDate
    /\ requests = << >>
    /\ SelectedKey \in DOMAIN localStorage
    /\ CachedAge(SelectedKey) < 10
    /\ \E other \in DOMAIN localStorage :
          localStorage[other][1].timestamp > localStorage[SelectedKey][1].timestamp

\* the card of SchoolResult is on the page
CardShown == mode = "page" /\ ~crashed /\ Mounted(result, isLoading)

\* no request for the key is in flight
Answered(key) == \A i \in 1..Len(requests) : requests[i] # key

\* the emergency check of the selection has reported a closure: the cached
\* response of its pair says so, is not older than 10 minutes, and no
\* request for the pair is in flight
ClosureReported ==
    /\ mode = "page" /\ checkDate # NullDate
    /\ SelectedKey \in DOMAIN localStorage
    /\ localStorage[SelectedKey][1].data.isClosed
    /\ CachedAge(SelectedKey) < 10
    /\ Answered(SelectedKey)

\* ------------------------------------------------------------------------
\* C22: whenever the emergency check for the displayed school and date has
\* reported isClosed = true, the card shows 'EMERGENCY CLOSURE' with the
\* reason of that report instead of YES/NO, whatever isOpen is.
\* ------------------------------------------------------------------------
C22_EmergencyOverrides ==
    ClosureReported =>
        /\ CardShown
        /\ displayStatus = "EMERGENCY CLOSURE"
        /\ displayReason = EmergencyReason(localStorage[SelectedKey][1].data)

\* ------------------------------------------------------------------------
\* C23: the emergency check does not block the verdict: when handleCheck
\* issues the emergency request, the local verdict of the selection is in
\* result and isLoading is false, and no step in which an emergency check
\* ends (answered, refused or failed) changes result or isLoading.
\* ------------------------------------------------------------------------
C23_EmergencyCheckNonBlocking ==
    [][/\ Len(requests') > Len(requests)
          => /\ ~isLoading'
             /\ result' = <<PageResult(getSchoolStatus(cfg, tz, schoolId', checkDate'),
                                       SchoolNameOf(cfg, schoolId'), checkDate')>>
       /\ Len(requests') < Len(requests)
          => /\ result' = result
             /\ isLoading' = isLoading]_vars

\* the check of the selection ended without an answer that could be cached
\* (refused or failed), and the verdict is still displayed
C23_Witness ==
    /\ CardShown
    /\ checkDate # NullDate
    /\ requests = << >>
    /\ localStorage = << >>
    /\ ~isCheckingEmergency
    /\ result[1].date = checkDate

\* ------------------------------------------------------------------------
\* C24: the forward scan always terminates: the backend scan never makes
\* more than 60 checkDateStatus calls, and every checkSchoolStatus call
\* eventually ends with a result or an error.
\* ------------------------------------------------------------------------
C24_ScanTerminates ==
    /\ [](daysChecked <= 60)
    /\ <>(pc \in {"done", "thrown"})

\* ------------------------------------------------------------------------
\* C25: GET /api/emergency with both parameters present never answers with
\* an error status, and when the closures page could not be fetched or
\* searched the body is isClosed = false, reason = null, details = null.
\* ------------------------------------------------------------------------
C25_EmergencyRouteNeverFails ==
    (/\ mode = "emergency" /\ pc = "answered"
     /\ ~NoName(req.schoolName) /\ ~NoDate(req.date))
    => /\ res[1].status = 200
       /\ (upstream[1].fetch # "page" \/ Len(req.schoolName) > 1)
          => /\ res[1].body.isClosed = FALSE
             /\ res[1].body.reason = NullStr
             /\ res[1].body.details = NullStr

\* a request with both parameters was answered while the closures site
\* could not be reached
C25_Witness ==
    /\ mode = "emergency" /\ pc = "answered"
    /\ ~NoName(req.schoolName) /\ ~NoDate(req.date)
    /\ upstream[1].fetch = "unreachable"
    /\ res[1].status = 200

\* a database callback of the backend invocation is pending
CallbackPending == pc \in {"school", "event", "holiday", "term", "scan", "reason"}

\* the term-rule callback is about to parse a term_dates text that is not JSON
ParseFailurePending ==
    /\ pc = "term"
    /\ HasTermRule(cfg, getSchoolById(cfg, schoolId).term_rule_id)
    /\ TermDatesJson(cfg) = "text"

\* ------------------------------------------------------------------------
\* C26: every backend checkSchoolStatus call settles its promise exactly
\* once: a settled promise is never settled again, the callback after which
\* no callback is pending has rejected it when a cascade query failed or
\* term_dates did not parse and has resolved it otherwise, and the server
\* answers 500 exactly for the rejected calls.
\* ------------------------------------------------------------------------
C26_SettlesExactlyOnce ==
    [][/\ settled # "pending" => settled' = settled
       /\ (CallbackPending /\ ~CallbackPending')
          => settled' = IF OnQueryError \/ ParseFailurePending
                        THEN "rejected" ELSE "resolved"
       /\ (mode = "remote" /\ pc = "response")
          => (pc' = "thrown") = (settled = "rejected")]_vars

\* ------------------------------------------------------------------------
\* C27: for a date of a year up to 2026, the nextChangeDate that
\* getSchoolStatus returns, when it is not null, is strictly later than the
\* queried date and at most 60 days later, in every host timezone.
\* ------------------------------------------------------------------------
C27_NextChangeWithinSixtyDays ==
    (/\ mode = "status" /\ pc = "done"
     /\ checkDate[1] <= 2026
     /\ local.next.date # NullDate)
    => /\ DayNum(local.next.date) > DayNum(checkDate)
       /\ DayNum(local.next.date) <= DayNum(checkDate) + 60

\* east of UTC, where the scan starts at the queried date itself, the
\* projection is the day after the queried date
C27_Witness ==
    /\ mode = "status" /\ pc = "done"
    /\ tz > 0
    /\ checkDate[1] <= 2026
    /\ local.next.date # NullDate
    /\ DayNum(local.next.date) = DayNum(checkDate) + 1

\* ------------------------------------------------------------------------
\* C28: the card shows an emergency closure only for the current selection:
\* whenever 'EMERGENCY CLOSURE' is displayed, the closure on the page was
\* reported by the emergency check of the selected school and date, so the
\* answer of a check started for an earlier selection never displays it and
\* a warning of an earlier selection does not stay.
\* ------------------------------------------------------------------------
C28_ClosureOfCurrentSelection ==
    (CardShown /\ showEmergency)
    => /\ displayStatus = "EMERGENCY CLOSURE"
       /\ closureFrom = <<SelectedKey>>

\* ------------------------------------------------------------------------
\* C29: isCheckingEmergency is true in every state in which at least one
\* emergency check is in flight and false when none is, also when a second
\* check was started before the first has completed.
\* ------------------------------------------------------------------------
C29_CheckingWhileInFlight ==
    (mode = "page" /\ ~crashed) => (isCheckingEmergency <=> requests # << >>)

====
